---- MODULE Spec2Model ----
(***************************************************************************)
(* Model of notebooks/01_fetch_cms_api_data: one GET request, a status     *)
(* check, a JSON parse guarded by try/except, a records-to-table           *)
(* conversion (pandas.DataFrame.from_records), a CSV write                 *)
(* (DataFrame.to_csv(index=False)) and a report line.                      *)
(*                                                                         *)
(* The script is a straight line of statements; pc is the statement about  *)
(* to execute.  The remote server and the file system are the environment: *)
(* what the server answers is fixed when a behaviour starts (the same      *)
(* answer is given to every run), what the file holds before the first run *)
(* is arbitrary, and whether the write succeeds is decided when it is      *)
(* attempted.                                                              *)
(***************************************************************************)
EXTENDS Integers, Sequences, FiniteSets

VARIABLES
    pc,        \* statement about to execute, or how the process ended
    server,    \* what the remote answers to GET (environment)
    response,  \* the Python variable `response`
    records,   \* the Python variable `records`
    df,        \* the Python variable `df`
    file,      \* the output CSV file on disk
    stdout,    \* the lines printed so far by this run
    exitCode,  \* exit status of the process, NoExit while it runs
    exc,       \* the exception that ended the run, if any
    gets,      \* GET requests issued by this run
    writes,    \* times this run opened the output file for writing
    run,       \* number of the current run of the script
    before,    \* content of the output file when the current run started
    prevEnd    \* how the previous run ended ("none" for the first run)

vars == <<pc, server, response, records, df, file, stdout, exitCode, exc,
          gets, writes, run, before, prevEnd>>

-----------------------------------------------------------------------------
(* Bounds of the model *)

MaxRecords == 2
MaxRuns == 2

(* Program constants *)

HTTP_OK == 200
TextLimit == 300

NoExit == 0 - 1

-----------------------------------------------------------------------------
(* Values *)

Keys == {"a", "b"}
NULL == "<null>"
NAN == "<nan>"
Scalars == {"x", NULL}

\* A JSON object with scalar values, in document order: a sequence of
\* <<key, value>> pairs with distinct keys.
DistinctKeys(m) == \A i, j \in DOMAIN m : m[i][1] = m[j][1] => i = j
Mappings ==
    {m \in UNION {[1..n -> Keys \X Scalars] : n \in 0..Cardinality(Keys)} :
        DistinctKeys(m)}
RecordLists == UNION {[1..n -> Mappings] : n \in 0..MaxRecords}

JNull == [t |-> "null"]
JNum == [t |-> "num"]
JStr == [t |-> "str", chars |-> <<"a", "b">>]
JList(items) == [t |-> "list", items |-> items]
JObj(members) == [t |-> "obj", members |-> members]

\* Values the `results` member can hold.
ResultsValues == {JList(l) : l \in RecordLists} \cup {JNull, JNum, JStr}

\* Top-level JSON documents.
Documents ==
    {JObj(<< <<"results", v>> >>) : v \in ResultsValues}
        \cup {JObj(<<>>), JObj(<< <<"count", JNum>> >>)}
        \cup {JList(<<>>), JNull}

NotJson(n) == [t |-> "notjson", len |-> n]
JsonBody(v) == [t |-> "json", len |-> TextLimit + 1, value |-> v]
TextLens == {0, TextLimit, TextLimit + 1}

ErrorStatuses == {404, 500}

Answer(s, b) == [t |-> "response", status |-> s, body |-> b]
TransportFailure == [t |-> "failure"]

Servers ==
    {TransportFailure}
        \cup {Answer(s, NotJson(n)) : s \in ErrorStatuses, n \in TextLens}
        \cup {Answer(s, JsonBody(JObj(<<>>))) : s \in ErrorStatuses}
        \cup {Answer(HTTP_OK, NotJson(n)) : n \in TextLens}
        \cup {Answer(HTTP_OK, JsonBody(v)) : v \in Documents}

Unset == [t |-> "unset"]
NoException == [type |-> "", line |-> 0]

Absent == [exists |-> FALSE, lines |-> <<>>]
Content(lines) == [exists |-> TRUE, lines |-> lines]
PriorFiles == {Absent, Content(<<>>), Content(<< <<"a">>, <<"x">> >>)}

Terminal == {"done", "exited", "raised"}

Min(a, b) == IF a < b THEN a ELSE b

-----------------------------------------------------------------------------
(* Library behaviour the script relies on *)

\* dict.get(key, default) on a JSON object's members.
HasKey(members, key) == \E i \in DOMAIN members : members[i][1] = key
Get(members, key, default) ==
    IF HasKey(members, key)
    THEN members[CHOOSE i \in DOMAIN members : members[i][1] = key][2]
    ELSE default

\* Variant: every early termination reports failure, as sys.exit(1) would.
ExitStatusFailing(how) == IF how = "end" THEN 0 ELSE 1

\* Exit status of the interpreter: exit() with no argument and running off
\* the end of the script give 0, an uncaught exception gives 1.
ExitStatus(how) == IF how = "traceback" THEN 1 ELSE 0

\* response.text[:300], as the number of characters printed.
Truncated(body) == Min(body.len, TextLimit)

\* Column labels of a list of dicts: every key, in order of first appearance.
RECURSIVE AppendNew(_, _)
AppendNew(cols, m) ==
    IF m = <<>> THEN cols
    ELSE AppendNew(IF \E j \in DOMAIN cols : cols[j] = m[1][1]
                   THEN cols ELSE Append(cols, m[1][1]),
                   Tail(m))

\* Variant: the columns are taken from the first dict alone.
KeysOfFirst(items) == IF items = <<>> THEN <<>> ELSE AppendNew(<<>>, items[1])

RECURSIVE FirstSeenKeys(_)
FirstSeenKeys(items) ==
    IF items = <<>> THEN <<>>
    ELSE AppendNew(FirstSeenKeys(SubSeq(items, 1, Len(items) - 1)),
                   items[Len(items)])

Table(columns, rows) == [ok |-> TRUE, err |-> "", columns |-> columns, rows |-> rows]
Raises(err) == [ok |-> FALSE, err |-> err, columns |-> <<>>, rows |-> <<>>]

\* Variant: a dict equal to an earlier one gives no row.
RECURSIVE Dedup(_)
Dedup(items) ==
    IF items = <<>> THEN <<>>
    ELSE LET front == SubSeq(items, 1, Len(items) - 1)
             last == items[Len(items)]
         IN  IF \E i \in DOMAIN front : front[i] = last
             THEN Dedup(front) ELSE Append(Dedup(front), last)

FromDictsDedup(items) ==
    LET kept == Dedup(items)
        columns == FirstSeenKeys(kept)
    IN  Table(columns,
              IF columns = <<>> THEN <<>>
              ELSE [i \in DOMAIN kept |->
                       [j \in DOMAIN columns |-> Get(kept[i], columns[j], NAN)]])

\* A list of dicts: one row per dict, a cell per column, NaN where the dict
\* lacks the key.  With no column at all the frame has no index to take its
\* length from and comes out with zero rows.
FromDicts(items) ==
    LET columns == FirstSeenKeys(items)
    IN  Table(columns,
              IF columns = <<>> THEN <<>>
              ELSE [i \in DOMAIN items |->
                       [j \in DOMAIN columns |-> Get(items[i], columns[j], NAN)]])

\* pandas.DataFrame.from_records(records).  None and a number have no len()
\* (TypeError); a string is taken as a sequence of one-character rows under
\* the default column label 0.
FromRecords(v) ==
    CASE v.t = "list" -> FromDicts(v.items)
      [] v.t = "str" -> Table(<<"0">>, [i \in DOMAIN v.chars |-> <<v.chars[i]>>])
      [] OTHER -> Raises("TypeError")

\* Text of a cell in the CSV: missing values (None, NaN) are written empty.
CsvText(cell) == IF cell \in {NULL, NAN} THEN "" ELSE cell

\* DataFrame.to_csv(path, index=False): the header line, then a line per row.
ToCsv(frame) ==
    <<frame.columns>>
        \o [i \in DOMAIN frame.rows |->
               [j \in DOMAIN frame.rows[i] |-> CsvText(frame.rows[i][j])]]

\* Variant: the file is opened in append mode.
AppendTo(old, lines) == Content(old.lines \o lines)

\* open(path, "w") followed by writing the lines: the file holds exactly them.
Overwrite(old, lines) == Content(lines)

Msg(kind, arg) == [kind |-> kind, arg |-> arg]

-----------------------------------------------------------------------------
(* The script *)

Init ==
    /\ pc = "fetch"
    /\ server \in Servers
    /\ response = Unset
    /\ records = Unset
    /\ df = Unset
    /\ file \in PriorFiles
    /\ stdout = <<>>
    /\ exitCode = NoExit
    /\ exc = NoException
    /\ gets = 0
    /\ writes = 0
    /\ run = 1
    /\ before = file
    /\ prevEnd = "none"

Raise(type, line) ==
    /\ pc' = "raised"
    /\ exc' = [type |-> type, line |-> line]
    /\ exitCode' = ExitStatus("traceback")

Exit ==
    /\ pc' = "exited"
    /\ exitCode' = ExitStatus("exit()")
    /\ exc' = exc

\* Variant: a failed request is issued a second time before giving up.
FetchRetry ==
    /\ pc = "fetch"
    /\ IF server.t = "failure"
       THEN /\ gets' = gets + 2
            /\ Raise("ConnectionError", 8)
            /\ response' = response
       ELSE /\ gets' = gets + 1
            /\ response' = server
            /\ pc' = "validate"
            /\ UNCHANGED <<exitCode, exc>>
    /\ UNCHANGED <<server, records, df, file, stdout, writes, run, before, prevEnd>>

\* line 8: response = requests.get(url)
Fetch ==
    /\ pc = "fetch"
    /\ gets' = gets + 1
    /\ IF server.t = "failure"
       THEN /\ Raise("ConnectionError", 8)
            /\ response' = response
       ELSE /\ response' = server
            /\ pc' = "validate"
            /\ UNCHANGED <<exitCode, exc>>
    /\ UNCHANGED <<server, records, df, file, stdout, writes, run, before, prevEnd>>

\* Variant: the failure is printed but exit() is missing.
ValidateNoExit ==
    /\ pc = "validate"
    /\ IF response.status # HTTP_OK
       THEN stdout' = stdout \o <<Msg("status", response.status),
                                  Msg("text", Truncated(response.body))>>
       ELSE stdout' = stdout
    /\ pc' = "parse"
    /\ UNCHANGED <<server, response, records, df, file, exitCode, exc, gets,
                   writes, run, before, prevEnd>>

\* lines 11-14: the status check
Validate ==
    /\ pc = "validate"
    /\ IF response.status # HTTP_OK
       THEN /\ stdout' = stdout \o <<Msg("status", response.status),
                                     Msg("text", Truncated(response.body))>>
            /\ Exit
       ELSE /\ pc' = "parse"
            /\ UNCHANGED <<stdout, exitCode, exc>>
    /\ UNCHANGED <<server, response, records, df, file, gets, writes, run,
                   before, prevEnd>>

\* The try block of lines 17-19 with its outcomes given as parameters: what
\* happens on a body that is no JSON, on a document that is no object, and
\* the default for a missing `results` member ("KeyError" for data["results"]).
ParseWith(onNotJson, onNotObject, missing) ==
    /\ pc = "parse"
    /\ LET body == response.body
           Caught(err) ==
               /\ stdout' = Append(stdout, Msg("parse", err))
               /\ Exit
               /\ records' = records
           Swallowed(err) ==
               /\ stdout' = Append(stdout, Msg("parse", err))
               /\ records' = JList(<<>>)
               /\ pc' = "convert"
               /\ UNCHANGED <<exitCode, exc>>
           Uncaught(err, line) ==
               /\ Raise(err, line)
               /\ UNCHANGED <<stdout, records>>
           Handle(how, err, line) ==
               CASE how = "caught" -> Caught(err)
                 [] how = "swallowed" -> Swallowed(err)
                 [] OTHER -> Uncaught(err, line)
       IN  IF body.t # "json" THEN Handle(onNotJson, "JSONDecodeError", 18)
           ELSE IF body.value.t # "obj" THEN Handle(onNotObject, "AttributeError", 19)
           ELSE IF missing = "KeyError" /\ ~HasKey(body.value.members, "results")
           THEN Caught("KeyError")
           ELSE /\ records' = Get(body.value.members, "results", JList(<<>>))
                /\ pc' = "convert"
                /\ UNCHANGED <<stdout, exitCode, exc>>
    /\ UNCHANGED <<server, response, df, file, gets, writes, run, before, prevEnd>>

\* Variant: the except clause prints and the script carries on.
ParseNoExit == ParseWith("swallowed", "swallowed", "default")
\* Variant: data["results"] instead of data.get("results", []).
ParseIndexing == ParseWith("caught", "caught", "KeyError")
\* Variant: `except ValueError`, which lets AttributeError through.
ParseExceptValueError == ParseWith("caught", "uncaught", "default")
\* Variant: `except AttributeError`, which lets the decode error through.
ParseExceptAttributeError == ParseWith("uncaught", "caught", "default")

\* lines 17-22: response.json() raises on a body that is no JSON document,
\* data.get raises AttributeError when the document is no object; both are
\* caught by `except Exception`.
Parse ==
    /\ pc = "parse"
    /\ LET body == response.body
       IN  IF body.t # "json"
           THEN /\ stdout' = Append(stdout, Msg("parse", "JSONDecodeError"))
                /\ Exit
                /\ records' = records
           ELSE IF body.value.t # "obj"
           THEN /\ stdout' = Append(stdout, Msg("parse", "AttributeError"))
                /\ Exit
                /\ records' = records
           ELSE /\ records' = Get(body.value.members, "results", JList(<<>>))
                /\ pc' = "convert"
                /\ UNCHANGED <<stdout, exitCode, exc>>
    /\ UNCHANGED <<server, response, df, file, gets, writes, run, before, prevEnd>>

\* line 25: df = pd.DataFrame.from_records(records), outside any try block
Convert ==
    /\ pc = "convert"
    /\ LET r == FromRecords(records)
       IN  IF r.ok
           THEN /\ df' = [columns |-> r.columns, rows |-> r.rows]
                /\ pc' = "persist"
                /\ UNCHANGED <<exitCode, exc>>
           ELSE /\ Raise(r.err, 25)
                /\ df' = df
    /\ UNCHANGED <<server, response, records, file, stdout, gets, writes, run,
                   before, prevEnd>>

\* line 28: df.to_csv(path, index=False) completes
Persist ==
    /\ pc = "persist"
    /\ file' = Overwrite(file, ToCsv(df))
    /\ writes' = writes + 1
    /\ pc' = "report"
    /\ UNCHANGED <<server, response, records, df, stdout, exitCode, exc, gets,
                   run, before, prevEnd>>

\* line 28: the file cannot be opened (the directory ../data/raw is absent,
\* no permission): OSError, nothing on disk changes.
PersistOpenFails ==
    /\ pc = "persist"
    /\ Raise("OSError", 28)
    /\ UNCHANGED <<server, response, records, df, file, stdout, gets, writes,
                   run, before, prevEnd>>

\* line 28: the file was opened (and so truncated) and the write stopped part
\* way (device full): OSError, a proper prefix of the lines is on disk.
PersistBreaksOff ==
    /\ pc = "persist"
    /\ \E k \in 0..Len(ToCsv(df)) - 1 :
           file' = Content(SubSeq(ToCsv(df), 1, k))
    /\ writes' = writes + 1
    /\ Raise("OSError", 28)
    /\ UNCHANGED <<server, response, records, df, stdout, gets, run, before,
                   prevEnd>>

\* line 29: print(f"Saved {len(df)} records ..."), then the script ends
Report ==
    /\ pc = "report"
    /\ stdout' = Append(stdout, Msg("saved", Len(df.rows)))
    /\ pc' = "done"
    /\ exitCode' = ExitStatus("end")
    /\ UNCHANGED <<server, response, records, df, file, exc, gets, writes, run,
                   before, prevEnd>>

\* The script is started again: a fresh process, the same server, the file
\* system as the previous run left it.
Rerun ==
    /\ pc \in Terminal
    /\ run < MaxRuns
    /\ run' = run + 1
    /\ prevEnd' = pc
    /\ before' = file
    /\ pc' = "fetch"
    /\ response' = Unset
    /\ records' = Unset
    /\ df' = Unset
    /\ stdout' = <<>>
    /\ exitCode' = NoExit
    /\ exc' = NoException
    /\ gets' = 0
    /\ writes' = 0
    /\ UNCHANGED <<server, file>>

Next ==
    \/ Fetch
    \/ Validate
    \/ Parse
    \/ Convert
    \/ Persist
    \/ PersistOpenFails
    \/ PersistBreaksOff
    \/ Report
    \/ Rerun

Spec == Init /\ [][Next]_vars

-----------------------------------------------------------------------------
(* Vocabulary of the properties *)

Answered == server.t = "response"
AnsweredOK == Answered /\ server.status = HTTP_OK
JsonOK == AnsweredOK /\ server.body.t = "json"
ObjectOK == JsonOK /\ server.body.value.t = "obj"
HasResults == ObjectOK /\ HasKey(server.body.value.members, "results")
ResultsValue == Get(server.body.value.members, "results", JNull)
RecordResults == HasResults /\ ResultsValue.t = "list"
Items == ResultsValue.items
WellFormed(items) == \A i \in DOMAIN items : items[i] # <<>>

Printed(kind) == \E i \in DOMAIN stdout : stdout[i].kind = kind
PrintedMsg(m) == \E i \in DOMAIN stdout : stdout[i] = m
Written == pc \in {"report", "done"}
KeysOf(m) == {m[i][1] : i \in DOMAIN m}
Shown(v) == IF v = NULL THEN "" ELSE v

-----------------------------------------------------------------------------
\* C1: when the response's status code is not 200, the output file keeps the
\* content it had before the run (it is neither created nor modified), the
\* run never gets to the parse, convert or persist step, and once it has
\* ended it has ended by exit() after printing a message holding the status
\* code.
C1_NonOkStatusAborts ==
    (Answered /\ server.status # HTTP_OK) =>
        /\ file = before
        /\ writes = 0
        /\ pc \in {"fetch", "validate", "exited"}
        /\ records = Unset /\ df = Unset
        /\ pc = "exited" => PrintedMsg(Msg("status", server.status))

C1_Witness ==
    /\ Answered /\ server.status = 404
    /\ pc = "exited"
    /\ PrintedMsg(Msg("status", 404))
    /\ file.exists /\ file = before

\* C2: when the status is 200 and the body is no JSON, the output file keeps
\* the content it had before the run, the run never gets to the convert or
\* persist step, and once it has ended it has ended by exit() after printing
\* the decode error.
C2_UndecodableBodyAborts ==
    (AnsweredOK /\ server.body.t = "notjson") =>
        /\ file = before
        /\ writes = 0
        /\ pc \in {"fetch", "validate", "parse", "exited"}
        /\ df = Unset
        /\ pc = "exited" => stdout = <<Msg("parse", "JSONDecodeError")>>

C2_Witness ==
    /\ AnsweredOK /\ server.body.t = "notjson"
    /\ pc = "exited"
    /\ stdout = <<Msg("parse", "JSONDecodeError")>>
    /\ ~file.exists

\* C3: when the status is 200 and `results` is a sequence of N well-formed
\* records (mappings of at least one column), the written file has a header
\* line and exactly N data lines, and data line i shows record i: under each
\* column the record's value for it, empty where the record has none.
RowShows(header, row, m) ==
    /\ Len(row) = Len(header)
    /\ KeysOf(m) \subseteq {header[j] : j \in DOMAIN header}
    /\ \A j \in DOMAIN header :
           row[j] = IF HasKey(m, header[j])
                    THEN Shown(Get(m, header[j], NULL)) ELSE ""

C3_RowsAreTheRecordsInOrder ==
    (Written /\ RecordResults /\ WellFormed(Items)) =>
        /\ file.exists
        /\ Len(file.lines) = Len(Items) + 1
        /\ \A i \in DOMAIN Items :
               RowShows(file.lines[1], file.lines[i + 1], Items[i])

C3_Witness ==
    /\ Written /\ RecordResults /\ WellFormed(Items)
    /\ Len(Items) = 2 /\ Items[1] = Items[2]
    /\ Len(file.lines) = 3

\* C4: when the status is 200 and the body is a JSON object without a
\* `results` member, the run is not treated as a parse failure: records is
\* the empty sequence, the conversion does not raise, the written file has
\* zero data lines and the success message reports 0 records.  The run can
\* only end by the success report or by to_csv itself raising.
C4_MissingResultsIsEmptySuccess ==
    (ObjectOK /\ ~HasResults) =>
        /\ pc # "exited"
        /\ ~Printed("parse")
        /\ pc \in {"convert", "persist", "report", "done", "raised"}
               => records = JList(<<>>)
        /\ pc = "raised" => exc.line = 28
        /\ Written => file.exists /\ Len(file.lines) = 1
        /\ pc = "done" => stdout = <<Msg("saved", 0)>>

C4_Witness ==
    /\ ObjectOK /\ ~HasResults
    /\ pc = "done"
    /\ stdout = <<Msg("saved", 0)>>
    /\ file.exists /\ ~before.exists

\* C5: when a successful run is followed by a second run against the same
\* response that also succeeds, the file left by the second run is the file
\* the first run left, whatever the file held before the first run: the
\* write replaces the content and never adds to it.
C5_SecondRunLeavesSameFile ==
    (run > 1 /\ pc = "done" /\ prevEnd = "done") => file = before

C5_Witness ==
    /\ run = 2 /\ pc = "done" /\ prevEnd = "done"
    /\ file = before
    /\ Len(file.lines) = 3

\* C6 as stated: whenever the status is 200 and the body is valid JSON of the
\* wrong shape (no object at the top, or a `results` member that is no
\* sequence of records), the run ends by the parse-error report and writes
\* nothing.
LacksShape == JsonOK /\ (~ObjectOK \/ (HasResults /\ ~RecordResults))

C6_Original ==
    LacksShape =>
        /\ writes = 0
        /\ pc \in Terminal => pc = "exited" /\ Printed("parse") /\ file = before

\* C6 as amended: a JSON document that is no object at the top is handled as
\* a parse error (the AttributeError is printed, the run exits, the file is
\* untouched).  A `results` member that is no sequence of records is never
\* handled as a parse error: the try block succeeds, and the run ends either
\* by from_records or to_csv raising or by the success report.
C6_Amended ==
    /\ (JsonOK /\ ~ObjectOK) =>
           /\ file = before
           /\ writes = 0
           /\ pc \in {"fetch", "validate", "parse", "exited"}
           /\ pc = "exited" => stdout = <<Msg("parse", "AttributeError")>>
    /\ (HasResults /\ ~RecordResults) =>
           /\ pc # "exited"
           /\ ~Printed("parse")
           /\ pc \in Terminal =>
                  \/ pc = "raised" /\ exc.line \in {25, 28}
                  \/ pc = "done"

C6_Witness ==
    /\ JsonOK /\ ~ObjectOK
    /\ pc = "exited"
    /\ stdout = <<Msg("parse", "AttributeError")>>
    /\ file = before

\* C7 as stated: a run ended by the status check or by the parse failure has
\* a non-zero exit status.
C7_Original == pc = "exited" => exitCode # 0

\* C7 as amended: a run ended by the status check or by the parse failure has
\* exit status 0, the same for both causes and the same as a successful run.
C7_Amended ==
    /\ pc = "exited" => exitCode = 0 /\ (Printed("status") \/ Printed("parse"))
    /\ pc = "done" => exitCode = 0

C7_Witness == pc = "exited" /\ Printed("parse") /\ exitCode = 0

\* C8: when the status is 200 and `results` is a sequence of records, the
\* header line of the written file holds exactly the keys that occur in the
\* records, each once, keys of later records included, and no column more.
AllKeys(items) == UNION {KeysOf(items[i]) : i \in DOMAIN items}

C8_HeaderIsUnionOfKeys ==
    (Written /\ RecordResults) =>
        /\ file.exists /\ Len(file.lines) >= 1
        /\ {file.lines[1][j] : j \in DOMAIN file.lines[1]} = AllKeys(Items)
        /\ Len(file.lines[1]) = Cardinality(AllKeys(Items))

C8_Witness ==
    /\ Written /\ RecordResults /\ WellFormed(Items)
    /\ Len(Items) = 2
    /\ KeysOf(Items[1]) = {"a"} /\ KeysOf(Items[2]) = {"b"}
    /\ file.lines[1] = <<"a", "b">>

\* C9 as stated: a run that has ended issued exactly one GET and wrote the
\* file at most once, and wrote it if and only if the status was 200 and the
\* parse succeeded; the success message is printed only after the write.
Parsed == records # Unset

C9_Original ==
    pc \in Terminal =>
        /\ gets = 1
        /\ writes <= 1
        /\ writes = 1 <=> (AnsweredOK /\ Parsed)
        /\ Printed("saved") => writes = 1

\* C9 as amended: every run issues exactly one GET, whatever its outcome, and
\* opens the file for writing at most once; it does so only if the status was
\* 200 and the parse succeeded, and after both checks.  The converse fails
\* only when from_records or to_csv raises.  The success message is printed
\* only after the write has completed.
C9_Amended ==
    /\ gets = (IF pc = "fetch" THEN 0 ELSE 1)
    /\ writes <= 1
    /\ writes = 1 =>
           /\ AnsweredOK /\ Parsed /\ df # Unset
           /\ pc \in {"report", "done", "raised"}
    /\ (pc \in Terminal /\ AnsweredOK /\ Parsed /\ writes = 0) =>
           pc = "raised" /\ exc.line \in {25, 28}
    /\ Printed("saved") =>
           pc = "done" /\ writes = 1 /\ file = Content(ToCsv(df))

C9_Witness ==
    /\ pc = "raised" /\ server = TransportFailure
    /\ gets = 1 /\ writes = 0

\* C10 as stated: every run ends either by the success report after a
\* completed write or by one of the two failure reports with the file
\* untouched, never by an unhandled exception.
C10_Original ==
    pc \in Terminal =>
        \/ pc = "done" /\ Printed("saved") /\ writes = 1
        \/ pc = "exited" /\ (Printed("status") \/ Printed("parse")) /\ file = before

\* C10 as amended: the status check and the parse block never end a run by an
\* unhandled exception: they end it by exit() after their report, with the
\* file untouched.  A run does end by an unhandled exception, with nothing
\* printed and exit status 1, when the GET raises (line 8), when from_records
\* raises (line 25) or when to_csv raises (line 28); the file is untouched in
\* the first two cases.  Any other run ends by the success report after a
\* completed write.
C10_Amended ==
    /\ pc = "raised" =>
           /\ exc.line \in {8, 25, 28}
           /\ exitCode = 1
           /\ stdout = <<>>
           /\ exc.line \in {8, 25} => file = before /\ writes = 0
           /\ exc.line = 8 <=> server = TransportFailure
    /\ pc = "exited" =>
           /\ exc = NoException
           /\ Printed("status") \/ Printed("parse")
           /\ file = before
    /\ pc = "done" =>
           /\ exc = NoException
           /\ Printed("saved") /\ writes = 1 /\ file = Content(ToCsv(df))

C10_Witness ==
    /\ pc = "raised"
    /\ exc = [type |-> "ConnectionError", line |-> 8]
    /\ file = before

====
